---------------------------- MODULE Spec2Model ----------------------------
(***************************************************************************)
(* A model of lambda_packager/package.py: LambdaAutoPackage builds a zip   *)
(* of a project's dependencies and matched source files in a staging       *)
(* directory (tmp_folder).                                                 *)
(*                                                                         *)
(* Strings are sequences of one-character strings, a path is a sequence of *)
(* file names, and a directory tree is a function from the paths below its *)
(* root to entries [kind, data].                                           *)
(***************************************************************************)
EXTENDS Naturals, Sequences, FiniteSets, TLC

VARIABLES
    project,            \* the tree below project_directory
    project_directory,  \* self.project_directory: [anchor, parts]
    config,             \* self.config: [src_patterns, ignore_hidden_files]
    poetry_manifest,    \* whether pyproject.toml declares a poetry project
    packages,           \* the package tree the project's requirements name
    tmp_folder,         \* the tree below self.tmp_folder (staging)
    pc,                 \* position of the caller in execute()
    matching_objects,   \* the objects the copy loop has yet to visit
    error,              \* the exception that ended the current run, "" if none
    runs,               \* number of execute() calls so far
    trace,              \* what the current run has done so far
    archives            \* the archives written to dist/lambda.zip, in order

vars == <<project, project_directory, config, poetry_manifest, packages,
          tmp_folder, pc, matching_objects, error, runs, trace, archives>>

\* Bound on the number of execute() calls in one behaviour.
MaxRuns == 2

---------------------------------------------------------------------------
\* File names, as strings of characters.

n_a == <<"a">>
n_b == <<"b">>
n_h == <<".", "h">>
n_env == <<".", "e", "n", "v">>
m_py == <<"m", ".", "p", "y">>
lib_py == <<"l", "i", "b", ".", "p", "y">>
n_dist == <<"d", "i", "s", "t">>
lambda_zip == <<"l", "a", "m", "b", "d", "a", ".", "z", "i", "p">>
requirements_txt == <<"r", "e", "q", "u", "i", "r", "e", "m", "e", "n", "t",
                      "s", ".", "t", "x", "t">>
dot_zip == <<".", "z", "i", "p">>

\* Path(), the current directory, and other places a project can live.
PathCwd == [anchor |-> "", parts |-> <<>>]
PathDotDot == [anchor |-> "", parts |-> << <<".", ".">>, <<"p">> >>]
PathHiddenAbs == [anchor |-> "/", parts |-> << <<"w">>, <<".", "v">>, <<"p">> >>]
PathPlainAbs == [anchor |-> "/", parts |-> << <<"w">>, <<"p">> >>]

ProjectDirectories == {PathCwd, PathDotDot, PathHiddenAbs, PathPlainAbs}

---------------------------------------------------------------------------
\* pathlib and str.

RECURSIVE Join(_)
Join(parts) ==
    IF parts = <<>> THEN <<>>
    ELSE IF Len(parts) = 1 THEN parts[1]
    ELSE parts[1] \o <<"/">> \o Join(Tail(parts))

\* str(Path)
str(path) ==
    IF path.anchor = "/" THEN <<"/">> \o Join(path.parts)
    ELSE IF path.parts = <<>> THEN <<".">>
    ELSE Join(path.parts)

\* Path.joinpath with a relative path
joinpath(path, rel) == [anchor |-> path.anchor, parts |-> path.parts \o rel]

\* Path.parent, on a relative path below a root
parent(p) == SubSeq(p, 1, Len(p) - 1)

\* Path.name
basename(p) == p[Len(p)]

\* str.endswith
endswith(s, suffix) ==
    /\ Len(s) >= Len(suffix)
    /\ SubSeq(s, Len(s) - Len(suffix) + 1, Len(s)) = suffix

\* fnmatch of one path component against a pattern with "*" wildcards
RECURSIVE fnmatch(_, _)
fnmatch(name, pat) ==
    IF pat = <<>> THEN name = <<>>
    ELSE IF Head(pat) = "*"
         THEN fnmatch(name, Tail(pat))
              \/ (name # <<>> /\ fnmatch(Tail(name), pat))
         ELSE name # <<>> /\ Head(name) = Head(pat)
              /\ fnmatch(Tail(name), Tail(pat))

---------------------------------------------------------------------------
\* Directory trees.

NoData == [origin |-> "none", of |-> <<>>, members |-> <<>>]
DirEntry == [kind |-> "dir", data |-> NoData]
FileEntry(d) == [kind |-> "file", data |-> d]
Bytes(origin, p) == [origin |-> origin, of |-> p, members |-> <<>>]

EmptyTree == [p \in {} |-> DirEntry]

exists(t, p) == p = <<>> \/ p \in DOMAIN t
is_dir(t, p) == p = <<>> \/ (p \in DOMAIN t /\ t[p].kind = "dir")
is_file(t, p) == p \in DOMAIN t /\ t[p].kind = "file"

Put(t, p, e) == [q \in DOMAIN t \cup {p} |-> IF q = p THEN e ELSE t[q]]

Children(t, d) == {q \in DOMAIN t : Len(q) = Len(d) + 1 /\ parent(q) = d}

IsPrefix(d, p) == Len(d) <= Len(p) /\ SubSeq(p, 1, Len(d)) = d

MkTree(dirs, files, origin) ==
    [p \in dirs \cup files |->
        IF p \in dirs THEN DirEntry ELSE FileEntry(Bytes(origin, p))]

Ok(t) == [tree |-> t, err |-> ""]
Raise(t, e) == [tree |-> t, err |-> e]

\* Path.mkdir(exist_ok=True): parents are not created
mkdir(t, p) ==
    IF is_dir(t, p) THEN Ok(t)
    ELSE IF exists(t, p) THEN Raise(t, "FileExistsError")
    ELSE IF ~exists(t, parent(p)) THEN Raise(t, "FileNotFoundError")
    ELSE IF ~is_dir(t, parent(p)) THEN Raise(t, "NotADirectoryError")
    ELSE Ok(Put(t, p, DirEntry))

\* os.makedirs(exist_ok=True): missing parents are created
RECURSIVE makedirs(_, _)
makedirs(t, p) ==
    IF is_dir(t, p) THEN Ok(t)
    ELSE IF exists(t, p) THEN Raise(t, "FileExistsError")
    ELSE LET r == makedirs(t, parent(p)) IN
         IF r.err # "" THEN Raise(t, "NotADirectoryError")
         ELSE Ok(Put(r.tree, p, DirEntry))

\* shutil.copyfile: the destination is opened for writing and truncated
copyfile(t, data, p) ==
    IF is_dir(t, p) THEN Raise(t, "IsADirectoryError")
    ELSE IF ~exists(t, parent(p)) THEN Raise(t, "FileNotFoundError")
    ELSE IF ~is_dir(t, parent(p)) THEN Raise(t, "NotADirectoryError")
    ELSE Ok(Put(t, p, FileEntry(data)))

\* shutil.copy2, copytree's copy_function: a destination that is a directory
\* receives the file under the source's base name
copy2(t, data, p) ==
    IF is_dir(t, p) THEN copyfile(t, data, p \o <<basename(p)>>)
    ELSE copyfile(t, data, p)

---------------------------------------------------------------------------
\* The hidden-file filter.

_is_hidden_file(name) ==
    \/ (name # <<>> /\ name[1] = ".")
    \/ \E i \in 1..(Len(name) - 1) : name[i] = "/" /\ name[i + 1] = "."

\* The ignore callback of copytree: src is the string copytree visits, files
\* the names listed in it; the result is the names not to copy.
_is_hidden_file_list(src, files) ==
    IF _is_hidden_file(src) THEN files
    ELSE {f \in files : _is_hidden_file(f)}

\* str(object) for the matched object at project-relative path rel, and the
\* os.path.join(src, name) strings copytree builds from it below
ObjectStr(rel) == str(joinpath(project_directory, rel))

\* The names copytree leaves out of directory d of the project
IgnoredNames(d) ==
    LET names == {basename(q) : q \in Children(project, d)} IN
    IF config.ignore_hidden_files
    THEN _is_hidden_file_list(ObjectStr(d), names)
    ELSE {}

---------------------------------------------------------------------------
\* shutil.copytree(str(object), str(new_location), dirs_exist_ok=True,
\* ignore=...) of project directory d to the same relative path of staging.
\* Errors below the top directory are collected and raised at the end.

RECURSIVE _copytree(_, _), CopyEntries(_, _)
CopyEntries(todo, acc) ==
    IF todo = {} THEN acc
    ELSE LET c == CHOOSE x \in todo : TRUE
             r == IF is_dir(project, c) THEN _copytree(c, acc.tree)
                  ELSE copy2(acc.tree, project[c].data, c)
         IN  CopyEntries(todo \ {c},
                 [tree |-> r.tree,
                  err |-> IF r.err # "" THEN "Error" ELSE acc.err])

_copytree(d, t) ==
    LET made == makedirs(t, d)
        kept == {q \in Children(project, d) : basename(q) \notin IgnoredNames(d)}
    IN  IF made.err # "" THEN made ELSE CopyEntries(kept, Ok(made.tree))

copytree(d, t) == _copytree(d, t)

\* The project files below d that a copytree of d leaves out
RECURSIVE IgnoredBelow(_)
IgnoredBelow(d) ==
    LET out == {q \in Children(project, d) : basename(q) \in IgnoredNames(d)}
        in == Children(project, d) \ out
    IN  {f \in DOMAIN project : is_file(project, f)
                                /\ \E q \in out : IsPrefix(q, f)}
        \cup UNION {IgnoredBelow(q) : q \in {x \in in : is_dir(project, x)}}

---------------------------------------------------------------------------
\* _get_matching_files_and_folders: source_dir.rglob(pattern) yields every
\* path below source_dir whose last component matches the pattern.

rglob(pattern) == {p \in DOMAIN project : fnmatch(basename(p), pattern)}

_get_matching_files_and_folders(pattern_list) ==
    UNION {rglob(pattern_list[i]) : i \in 1..Len(pattern_list)}

---------------------------------------------------------------------------
\* The inputs: project trees, pattern lists, and what pip installs.

ReqPath == <<requirements_txt>>
ZipPath == <<n_dist, lambda_zip>>

\* a package two levels deep
TreeNested ==
    MkTree({<<n_a>>, <<n_a, n_b>>}, {<<n_a, m_py>>, <<n_a, n_b, m_py>>}, "src")
\* hidden objects at the root and inside a package
TreeHidden ==
    MkTree({<<n_a>>, <<n_a, n_h>>},
           {<<n_env>>, <<n_a, m_py>>, <<n_a, n_h, m_py>>}, "src")
\* a hidden directory at the root
TreeFlat == MkTree({<<n_h>>}, {<<m_py>>, <<n_h, m_py>>}, "src")

ProjectTrees == {TreeNested, TreeHidden, TreeFlat}

PatternLists ==
    { << <<"*", ".", "p", "y">> >>,
      << <<"*">> >>,
      << n_a, <<"*", ".", "p", "y">> >>,
      << <<".", "*">> >> }

\* a package that shares directory a, and file a/m.py, with the sources
PkgShared == MkTree({<<n_a>>}, {<<n_a, lib_py>>, <<n_a, m_py>>}, "dep")
\* a package with a directory where the sources have the file a/m.py
PkgClash == MkTree({<<n_a>>, <<n_a, m_py>>}, {<<n_a, m_py, m_py>>}, "dep")

Packages == {PkgShared, PkgClash}

\* The exit status of the pip subprocess
PipExits == {0, 1}

\* pip install --target: a top-level name already in the target is kept
PipInstall(t, pkg) ==
    LET new == {q \in DOMAIN pkg : ~exists(t, <<q[1]>>)} IN
    [p \in DOMAIN t \cup new |-> IF p \in DOMAIN t THEN t[p] ELSE pkg[p]]

\* What the lock export does: write the file, write nothing, or raise
ExportOutcomes == {"written", "nothing", "raises"}

\* export_poetry(target_path, project_directory), target_path in tree t
export_poetry(t, target_path, outcome) ==
    IF outcome = "written"
    THEN Ok(Put(t, target_path, FileEntry(Bytes("export", target_path))))
    ELSE IF outcome = "raises" THEN Raise(t, "CalledProcessError")
    ELSE Ok(t)

NewTrace ==
    [exports |-> 0, exported |-> FALSE, installs |-> <<>>, depFault |-> FALSE,
     source |-> EmptyTree, matched |-> {},
     processed |-> {}, excluded |-> {}, zipped |-> FALSE]

Init ==
    /\ \E t \in ProjectTrees, req \in BOOLEAN :
          project = IF req THEN Put(t, ReqPath, FileEntry(Bytes("src", ReqPath)))
                    ELSE t
    /\ project_directory \in ProjectDirectories
    /\ config \in [src_patterns : PatternLists, ignore_hidden_files : BOOLEAN]
    /\ poetry_manifest \in BOOLEAN
    /\ packages \in IF is_file(project, ReqPath) \/ poetry_manifest
                    THEN Packages ELSE {EmptyTree}
    /\ tmp_folder = EmptyTree
    /\ pc = "idle"
    /\ matching_objects = {}
    /\ error = ""
    /\ runs = 0
    /\ trace = NewTrace
    /\ archives = <<>>

---------------------------------------------------------------------------
\* __init__ and execute: the dependency stage.

\* poetry_is_used(project_directory)
poetry_is_used == poetry_manifest

\* A selector that looks for the lock manifest first
DependencyStrategyLockFirst ==
    IF poetry_is_used THEN "poetry"
    ELSE IF is_file(project, ReqPath) THEN "requirements"
    ELSE "none"

\* The branch execute() takes
DependencyStrategy ==
    IF is_file(project, ReqPath) THEN "requirements"
    ELSE IF poetry_is_used THEN "poetry"
    ELSE "none"

\* A command line that never carries --no-deps
pip_cmd_without_flag(requirements_file_path, no_deps) ==
    [requirements_file_path |-> requirements_file_path, no_deps |-> FALSE]

\* The command line _install_requirements_txt builds
pip_cmd(requirements_file_path, no_deps) ==
    [requirements_file_path |-> requirements_file_path, no_deps |-> no_deps]

\* A subprocess call that does not look at the exit status
check_output_unchecked(exit) == ""

\* subprocess.check_output raises on a non-zero exit status
check_output(exit) == IF exit # 0 THEN "CalledProcessError" ELSE ""

\* _install_requirements_txt(target, requirements_file_path, no_deps), with the
\* tree that holds the requirements file and the exit status pip ends with
_install_requirements_txt(target, holder, requirements_file_path, no_deps, exit) ==
    IF ~is_file(holder, requirements_file_path.rel)
    THEN [tree |-> target, err |-> "ValueError", cmds |-> <<>>, exit |-> 0]
    ELSE [tree |-> IF exit = 0 THEN PipInstall(target, packages) ELSE target,
          err |-> check_output(exit),
          cmds |-> <<pip_cmd(requirements_file_path, no_deps)>>,
          exit |-> exit]

\* A new LambdaAutoPackage for the same project and config: __init__ makes a
\* new temporary directory
Construct ==
    /\ pc \in {"done", "failed"}
    /\ runs < MaxRuns
    /\ tmp_folder' = EmptyTree
    /\ pc' = "idle"
    /\ matching_objects' = {}
    /\ error' = ""
    /\ trace' = NewTrace
    /\ UNCHANGED <<project, project_directory, config, poetry_manifest,
                   packages, runs, archives>>

\* execute() is called on the instance
execute ==
    /\ pc \in {"idle", "done", "failed"}
    /\ runs < MaxRuns
    /\ runs' = runs + 1
    /\ pc' = "select"
    /\ error' = ""
    /\ trace' = NewTrace
    /\ matching_objects' = {}
    /\ UNCHANGED <<project, project_directory, config, poetry_manifest, packages,
                   tmp_folder, archives>>

AfterDependencies(r, exports, exported, fault) ==
    /\ tmp_folder' = r.tree
    /\ trace' = [trace EXCEPT !.exports = exports,
                              !.exported = exported,
                              !.installs = @ \o r.cmds,
                              !.depFault = fault \/ r.exit # 0]
    /\ error' = r.err
    /\ pc' = IF r.err # "" THEN "failed" ELSE "collect"
    /\ UNCHANGED <<project, project_directory, config, poetry_manifest,
                   packages, matching_objects, runs, archives>>

\* execute(), first branch: requirements.txt is a file of the project
UseRequirementsTxt ==
    /\ pc = "select"
    /\ DependencyStrategy = "requirements"
    /\ \E exit \in PipExits :
          AfterDependencies(
              _install_requirements_txt(tmp_folder, project,
                  [root |-> "project_directory", rel |-> ReqPath], FALSE, exit),
              0, FALSE, FALSE)

\* execute(), second branch: the lock is exported into staging and installed
UsePoetry ==
    /\ pc = "select"
    /\ DependencyStrategy = "poetry"
    /\ \E outcome \in ExportOutcomes, exit \in PipExits :
          LET e == export_poetry(tmp_folder, ReqPath, outcome) IN
          IF e.err # ""
          THEN AfterDependencies(
                   [tree |-> e.tree, err |-> e.err, cmds |-> <<>>, exit |-> 0],
                   1, FALSE, TRUE)
          ELSE AfterDependencies(
                   _install_requirements_txt(e.tree, e.tree,
                       [root |-> "tmp_folder", rel |-> ReqPath], TRUE, exit),
                   1, outcome = "written", ~is_file(e.tree, ReqPath))

\* execute(), last branch: a warning, and nothing is installed
NoDependency ==
    /\ pc = "select"
    /\ DependencyStrategy = "none"
    /\ pc' = "collect"
    /\ UNCHANGED <<project, project_directory, config, poetry_manifest, packages,
                   tmp_folder, matching_objects, error, runs, trace, archives>>

---------------------------------------------------------------------------
\* _copy_source_files and _create_zip_file.

\* _copy_source_files, up to the loop: the matching objects are collected
CollectMatching ==
    /\ pc = "collect"
    /\ matching_objects' = _get_matching_files_and_folders(config.src_patterns)
    /\ trace' = [trace EXCEPT !.source = project,
                              !.matched = matching_objects']
    /\ pc' = "copy"
    /\ UNCHANGED <<project, project_directory, config, poetry_manifest, packages,
                   tmp_folder, error, runs, archives>>

\* str(relative_path) of a matched object
RelativeStr(object) == str([anchor |-> "", parts |-> object])

\* The body of the loop for a matched file
CopyMatchedFile(object, t) ==
    LET made == mkdir(t, parent(object)) IN
    IF made.err # "" THEN made
    ELSE IF config.ignore_hidden_files /\ _is_hidden_file(RelativeStr(object))
         THEN made
         ELSE copyfile(made.tree, project[object].data, object)

\* The files the loop body leaves out while it handles a matched object
ExcludedBy(object) ==
    IF is_file(project, object)
    THEN IF config.ignore_hidden_files /\ _is_hidden_file(RelativeStr(object))
         THEN {object} ELSE {}
    ELSE IF is_dir(project, object) THEN IgnoredBelow(object)
    ELSE {}

\* One iteration of the loop over the set matching_objects, in any order
CopyObject ==
    /\ pc = "copy"
    /\ \E object \in matching_objects :
          LET r == IF is_file(project, object)
                   THEN CopyMatchedFile(object, tmp_folder)
                   ELSE IF is_dir(project, object)
                        THEN copytree(object, tmp_folder)
                        ELSE Ok(tmp_folder)
          IN  /\ tmp_folder' = r.tree
              /\ error' = r.err
              /\ pc' = IF r.err # "" THEN "failed" ELSE "copy"
              /\ matching_objects' = matching_objects \ {object}
              /\ trace' = [trace EXCEPT
                     !.processed = @ \cup {object},
                     !.excluded = @ \cup {<<object, f>> : f \in ExcludedBy(object)}]
    /\ UNCHANGED <<project, project_directory, config, poetry_manifest, packages, runs,
                   archives>>

\* shutil.make_archive(format="zip", root_dir=source_dir): every directory and
\* file below source_dir becomes a member
make_archive(source_dir) ==
    [origin |-> "zip", of |-> <<>>, members |-> source_dir]

\* _create_zip_file(self.tmp_folder, str(project_directory / "dist/lambda.zip"))
_create_zip_file(source_dir, target) ==
    IF endswith(str(joinpath(project_directory, target)), dot_zip)
    THEN LET made == mkdir(project, parent(target)) IN
         IF made.err # "" THEN made
         ELSE copyfile(made.tree, make_archive(source_dir), target)
    ELSE Raise(project, "ValueError")

\* The loop is over: the staging directory is archived
CreateZip ==
    /\ pc = "copy"
    /\ matching_objects = {}
    /\ LET r == _create_zip_file(tmp_folder, ZipPath) IN
          /\ project' = r.tree
          /\ error' = r.err
          /\ pc' = IF r.err # "" THEN "failed" ELSE "done"
          /\ archives' = IF r.err # "" THEN archives
                         ELSE Append(archives, tmp_folder)
          /\ trace' = [trace EXCEPT !.zipped = (r.err = "")]
    /\ UNCHANGED <<project_directory, config, poetry_manifest, packages, tmp_folder,
                   matching_objects, runs>>

Next ==
    \/ Construct
    \/ execute
    \/ UseRequirementsTxt
    \/ UsePoetry
    \/ NoDependency
    \/ CollectMatching
    \/ CopyObject
    \/ CreateZip

Spec == Init /\ [][Next]_vars

---------------------------------------------------------------------------
\* Vocabulary of the properties.

\* The archive the last completed run wrote
LastArchive == archives[Len(archives)]

\* Some component of the path starts with "."
HasHiddenSegment(p) == \E i \in 1..Len(p) : p[i] # <<>> /\ p[i][1] = "."

FilesOf(t) == {p \in DOMAIN t : is_file(t, p)}

\* The project files the patterns select, directly or inside a matched
\* directory, that the hidden-file filter lets through
SelectedFiles ==
    {f \in FilesOf(project) :
        /\ \E o \in trace.matched : IsPrefix(o, f)
        /\ ~(config.ignore_hidden_files /\ HasHiddenSegment(f))}

\* The dependency stage of the run that trace describes is over
DependenciesOver == pc \in {"collect", "copy", "done", "failed"}

ProjectRequirements == [root |-> "project_directory", rel |-> ReqPath]
StagedRequirements == [root |-> "tmp_folder", rel |-> ReqPath]

---------------------------------------------------------------------------
\* C1: with ignore_hidden_files set, no member (file or directory) of the
\* archive of a completed run has a path segment starting with ".".
C1_NoHiddenMember ==
    (pc = "done" /\ config.ignore_hidden_files)
        => \A p \in DOMAIN LastArchive : ~HasHiddenSegment(p)

\* C2: with ignore_hidden_files unset, the run never aborts because the parent
\* of a destination is missing in staging, every object the loop has handled is
\* in staging at its relative path, and every matched object is a member of the
\* archive at that path, with the bytes the source had when the objects were
\* collected if it is a file.
C2_EveryMatchedObjectCopied ==
    ~config.ignore_hidden_files =>
        /\ error # "FileNotFoundError"
        /\ pc = "copy" => \A o \in trace.processed : exists(tmp_folder, o)
        /\ pc = "done" =>
              \A o \in trace.matched :
                  /\ o \in DOMAIN LastArchive
                  /\ LastArchive[o].kind = trace.source[o].kind
                  /\ is_file(trace.source, o) => LastArchive[o] = trace.source[o]

\* C3: the project is never changed by the user, so any two archives written
\* one after the other have the same member paths and the same contents.
C3_Idempotent ==
    \A i \in 1..(Len(archives) - 1) : archives[i + 1] = archives[i]

\* C4: at the start of every execute() call the staging directory is empty.
C4_FreshStaging == pc = "select" => tmp_folder = EmptyTree

\* C5: in a run on a project with a requirements.txt file at its root the lock
\* export is never invoked, and the installer is invoked on that file.
C5_RequirementsFirst ==
    is_file(project, ReqPath) =>
        /\ trace.exports = 0
        /\ DependenciesOver =>
              /\ Len(trace.installs) = 1
              /\ trace.installs[1].requirements_file_path = ProjectRequirements

C5_Witness ==
    /\ is_file(project, ReqPath) /\ poetry_manifest
    /\ pc = "done"
    /\ Len(trace.installs) = 1

\* C6: the installer is invoked at most once in a run, with --no-deps exactly
\* when the lock strategy is the one selected; with a lock manifest only, once
\* the export has written the requirements file into staging, the installer is
\* invoked once, on that file, with --no-deps; with a requirements.txt at the
\* project root it is invoked once, on that file, without --no-deps.
C6_NoDepsIffLock ==
    /\ Len(trace.installs) <= 1
    /\ \A i \in 1..Len(trace.installs) :
          trace.installs[i].no_deps <=> (DependencyStrategy = "poetry")
    /\ (DependencyStrategy = "poetry" /\ DependenciesOver) =>
          /\ trace.exports = 1
          /\ trace.exported =>
                /\ is_file(tmp_folder, ReqPath)
                /\ trace.installs =
                      <<[requirements_file_path |-> StagedRequirements,
                         no_deps |-> TRUE]>>
    /\ (DependencyStrategy = "requirements" /\ DependenciesOver) =>
          trace.installs =
              <<[requirements_file_path |-> ProjectRequirements,
                 no_deps |-> FALSE]>>

C6_Witness ==
    /\ DependencyStrategy = "poetry"
    /\ pc = "done"
    /\ trace.exported
    /\ Len(trace.installs) = 1 /\ trace.installs[1].no_deps

\* C7: with neither a requirements file nor a lock manifest, neither the
\* exporter nor the installer is invoked, the run does not fail, and the files
\* of the archive are exactly the selected source files.
C7_NoDependencySource ==
    DependencyStrategy = "none" =>
        /\ trace.exports = 0
        /\ trace.installs = <<>>
        /\ pc # "failed"
        /\ pc = "done" => FilesOf(LastArchive) = SelectedFiles

\* C8: once the dependency stage has met a fatal error (the export raised or
\* left no requirements file, or the installer exited non-zero) the run has
\* failed: nothing was collected or copied and no archive was written.
C8_DependencyFailureAborts ==
    trace.depFault =>
        /\ pc = "failed"
        /\ error # ""
        /\ trace.matched = {} /\ trace.processed = {}
        /\ matching_objects = {}
        /\ ~trace.zipped

C8_Witness ==
    /\ trace.depFault
    /\ pc = "failed"
    /\ error = "ValueError"

\* C9: with ignore_hidden_files set, a file inside a matched directory is left
\* out by the directory copy exactly when the single-file check on its
\* project-relative path would leave it out.
C9_FilterConsistent ==
    config.ignore_hidden_files =>
        \A d \in trace.processed :
            is_dir(project, d) =>
                \A f \in {x \in FilesOf(project) : IsPrefix(d, x)} :
                    (<<d, f>> \in trace.excluded)
                        <=> _is_hidden_file(RelativeStr(f))

\* The source files a copy of directory d copies
CopiedFrom(d) ==
    {f \in FilesOf(project) : IsPrefix(d, f)} \ IgnoredBelow(d)

\* C10: a loop iteration that copies a matched directory leaves every file of
\* staging that is not at the path of a copied source file as it was, and a
\* file it does change holds the bytes of the source file at that path.
C10_MergeFrame ==
    [][\A d \in trace'.processed \ trace.processed :
          is_dir(project, d) =>
              \A p \in FilesOf(tmp_folder) :
                  /\ p \in DOMAIN tmp_folder'
                  /\ p \notin CopiedFrom(d) => tmp_folder'[p] = tmp_folder[p]
                  /\ tmp_folder'[p] # tmp_folder[p] => tmp_folder'[p] = project[p]
      ]_vars

============================================================================
